---------------------------- MODULE Spec2Model ----------------------------
(***************************************************************************)
(* Model of src/app.py: a Flask backend with two JSON endpoints.           *)
(*   POST /summarize : video URL -> video id -> caption track -> flattened *)
(*                     transcript -> summary prompt -> language model      *)
(*   POST /ask       : question + prompt_count + summary -> turn gate ->   *)
(*                     answer prompt -> language model                     *)
(* Python strings are sequences of one-character strings.  Python values   *)
(* that a JSON body can carry are tagged records (None, str, int, absent   *)
(* key).  An exception raised by a stage is a record with ok = FALSE.      *)
(* The handlers share no mutable state (only the two module globals set at *)
(* import time), so requests are modelled one at a time.                   *)
(***************************************************************************)
EXTENDS Integers, Sequences, FiniteSets, TLC

VARIABLES
    env,                \* process environment at import time: API key set, Mistral() succeeds
    YT_DLP_AVAILABLE,   \* module global, app.py:11-19
    mistral_client,     \* module global, app.py:28-36 (TRUE: a client object, FALSE: None)
    pc,                 \* position of the handler (or of the function under test)
    request,            \* the HTTP request being served
    frame,              \* the handler's local variables
    response,           \* what the handler returned (or the exception that left it)
    calls,              \* external calls made while serving the current request
    clientCount,        \* prompt_count held by the browser client between turns
    answered,           \* successful answers that client has received
    arg,                \* argument of the pure function under test
    result              \* its return value

vars == <<env, YT_DLP_AVAILABLE, mistral_client, pc, request, frame, response,
          calls, clientCount, answered, arg, result>>

-----------------------------------------------------------------------------
(* Python values *)

None == [t |-> "none", s |-> <<>>, n |-> 0]
Absent == [t |-> "absent", s |-> <<>>, n |-> 0]
PyStr(s) == [t |-> "str", s |-> s, n |-> 0]
PyInt(n) == [t |-> "int", s |-> <<>>, n |-> n]

\* Python truth value: None, "" and 0 are falsy.
Truthy(v) ==
    CASE v.t = "str" -> v.s # <<>>
      [] v.t = "int" -> v.n # 0
      [] OTHER -> FALSE

Ok(v) == [ok |-> TRUE, val |-> v, exc |-> ""]
Raise(e) == [ok |-> FALSE, val |-> None, exc |-> e]

Min(a, b) == IF a <= b THEN a ELSE b

NoRequest == [endpoint |-> "none", honest |-> FALSE, kind |-> "none",
              video_url |-> Absent, question |-> Absent,
              prompt_count |-> Absent, summary |-> Absent]
NoPayload == [kind |-> "none", has_events |-> FALSE, events |-> <<>>]
NoFrame == [video_url |-> None, video_id |-> None,
            subtitle_url |-> None, payload |-> NoPayload, transcript_text |-> None,
            question |-> None, summary |-> None, prompt_count |-> 0,
            admitted |-> FALSE, exc |-> ""]
NoResponse == [kind |-> "none", status |-> 0, success |-> "absent",
               verification |-> "absent", error |-> "", detail |-> "",
               text |-> "", prompt_count |-> Absent]

-----------------------------------------------------------------------------
(* get_video_id, app.py:38-41 *)

Letters == {"a","b","c","d","e","f","g","h","i","j","k","l","m","n","o","p",
            "q","r","s","t","u","v","w","x","y","z"}
Digits == {"0","1","2","3","4","5","6","7","8","9"}
\* \w of a Python 3 str pattern, restricted to the characters the model uses
WordChars == Letters \cup Digits \cup {"_"}

\* the character class [\w-]
IdCharNoDash(c) == c \in WordChars
IdChar(c) == c \in WordChars \cup {"-"}

MarkerV == <<"v", "=">>
MarkerShort == <<"y","o","u","t","u",".","b","e","/">>

\* (?<=lit) at position p (1-based index of the next character to match)
LookBehind(s, p, lit) ==
    /\ p - 1 >= Len(lit)
    /\ SubSeq(s, p - Len(lit), p - 1) = lit

\* greedy [\w-]+ from p: the index of the last character matched, p-1 if none
RECURSIVE RunEnd(_, _)
RunEnd(s, p) ==
    IF p <= Len(s) /\ IdChar(s[p]) THEN RunEnd(s, p + 1) ELSE p - 1

\* either alternative of the pattern matches at p
MatchAt(s, p) ==
    /\ LookBehind(s, p, MarkerV) \/ LookBehind(s, p, MarkerShort)
    /\ RunEnd(s, p) >= p

\* re.search: the leftmost position where the pattern matches
RECURSIVE ReSearch(_, _)
ReSearch(s, p) ==
    IF p > Len(s) THEN None
    ELSE IF MatchAt(s, p) THEN PyStr(SubSeq(s, p, RunEnd(s, p)))
    ELSE ReSearch(s, p + 1)

\* re.search raises TypeError on a non-string argument
get_video_id(url) ==
    IF ~Truthy(url) THEN Ok(None)
    ELSE IF url.t # "str" THEN Raise("TypeError")
    ELSE Ok(ReSearch(url.s, 1))

-----------------------------------------------------------------------------
(* Specification SpecVideoId: get_video_id applied to bounded URL strings *)

MaxPieces == 4

UrlPieces == { MarkerV, <<"y","o","u","t","u",".","b","e">>,
               <<"y","o","u","t","u","x","b","e">>,
               <<"/">>, <<"a">>, <<"-">>, <<"&">>, <<"=">> }

RECURSIVE Concat(_)
Concat(ps) == IF ps = <<>> THEN <<>> ELSE Head(ps) \o Concat(Tail(ps))

PieceSeqs == UNION { [1..k -> UrlPieces] : k \in 0..MaxPieces }
UrlInputs == { PyStr(Concat(ps)) : ps \in PieceSeqs } \cup {None}

Idle ==
    /\ env = [MISTRAL_API_KEY |-> TRUE, ctor_ok |-> TRUE]
    /\ YT_DLP_AVAILABLE = TRUE
    /\ mistral_client = TRUE
    /\ request = NoRequest
    /\ frame = NoFrame
    /\ response = NoResponse
    /\ calls = <<>>
    /\ clientCount = 0
    /\ answered = 0

UNCHANGED_app == UNCHANGED <<env, YT_DLP_AVAILABLE, mistral_client, request, frame,
                             response, calls, clientCount, answered>>

InitVideoId ==
    /\ Idle
    /\ pc = "call_get_video_id"
    /\ arg \in UrlInputs
    /\ result = Ok(None)

CallGetVideoId ==
    /\ pc = "call_get_video_id"
    /\ result' = get_video_id(arg)
    /\ pc' = "returned"
    /\ UNCHANGED arg
    /\ UNCHANGED_app

NextVideoId == CallGetVideoId

SpecVideoId == InitVideoId /\ [][NextVideoId]_vars

\* positions where an identifier starts: right after a marker, on an id character
Occurrences(s) ==
    { p \in 1..Len(s) :
        /\ \/ (p > 2 /\ s[p-2] = "v" /\ s[p-1] = "=")
           \/ (p > 9 /\ \A i \in 1..9 : s[p - 10 + i] = MarkerShort[i])
        /\ s[p] \in WordChars \cup {"-"} }

\* the maximal run of word characters, '-' and '_' that starts at p
IsMaximalRun(s, p, id) ==
    /\ Len(id) >= 1
    /\ p + Len(id) - 1 <= Len(s)
    /\ \A i \in 1..Len(id) : id[i] = s[p + i - 1] /\ id[i] \in WordChars \cup {"-"}
    /\ p + Len(id) <= Len(s) => s[p + Len(id)] \notin WordChars \cup {"-"}

\* C8: for a URL string holding v=<id> or youtu.be/<id> the function returns
\* exactly the maximal identifier run after the leftmost such marker; for a
\* URL with neither pattern, and for empty or missing input, it returns None;
\* it never raises on these inputs.
C8_VideoIdExtracted ==
    pc = "returned" =>
        /\ result.ok
        /\ arg.t = "none" => result.val = None
        /\ arg.t = "str" =>
            LET occ == Occurrences(arg.s) IN
            IF occ = {} THEN result.val = None
            ELSE LET p == CHOOSE q \in occ : \A r \in occ : q <= r IN
                 /\ result.val.t = "str"
                 /\ IsMaximalRun(arg.s, p, result.val.s)

\* a short link whose identifier starts with '-' and runs to the end of the URL
C8_Witness ==
    /\ pc = "returned"
    /\ arg = PyStr(<<"y","o","u","t","u",".","b","e","/","-","a">>)
    /\ result = Ok(PyStr(<<"-","a">>))

-----------------------------------------------------------------------------
(* Prompt construction, app.py:121-124 and app.py:228-231 *)

TranscriptLimit == 10000
SummaryLimit == 2500
QuestionLimit == 500

\* s[:k] of a Python str, k >= 0: the first k characters, all of s if shorter
PySliceOffByOne(s, k) == SubSeq(s, 1, Min(Len(s), k + 1))
PySlice(s, k) == SubSeq(s, 1, Min(Len(s), k))

\* The fixed instruction texts and labels; each stands in the prompt as one unit.
SummaryInstruction == <<"Summarize this video transcript in 3 paragraphs. [...] STAY ONLY ACCORDING TO THE TRANSCRIPT GIVEN AND NOTHING ELSE.\n\n">>
AnswerInstruction == <<"Answer the question of the user based off the summary. [...] I cannot answer this question as it is out of context. \n\n">>
SummaryLabel == <<"Summary: ">>
QuestionLabel == <<"\n", "Question: ">>

\* prompt of summarize_transcript; transcript is the str get_transcript_with_ytdlp returned
SummaryPrompt(transcript) ==
    SummaryInstruction \o PySlice(transcript.s, TranscriptLimit)

\* prompt of ask; subscripting a value that is not a str (None, int) raises TypeError
AnswerPrompt(summary, question) ==
    IF summary.t # "str" \/ question.t # "str" THEN Raise("TypeError")
    ELSE Ok(AnswerInstruction \o SummaryLabel \o PySlice(summary.s, SummaryLimit)
            \o QuestionLabel \o PySlice(question.s, QuestionLimit))

-----------------------------------------------------------------------------
(* Specification SpecPrompt: the two prompts built from bounded texts *)

MaxOver == 2

\* a text of n characters, all "a" but a "#" at position p (none if p = 0)
Text(n, p) == [i \in 1..n |-> IF i = p THEN "#" ELSE "a"]

TextsAround(limit) ==
    { Text(n, p) : n \in {0, 1} \cup (limit - 1)..(limit + MaxOver),
                   p \in {0, 1, limit, limit + 1, limit + MaxOver} }

PromptInputs ==
    { [fn |-> "summarize_transcript", transcript |-> PyStr(t),
       summary |-> None, question |-> None] : t \in TextsAround(TranscriptLimit) }
    \cup
    { [fn |-> "ask", transcript |-> None,
       summary |-> PyStr(s), question |-> PyStr(q)] :
         s \in TextsAround(SummaryLimit), q \in TextsAround(QuestionLimit) }

InitPrompt ==
    /\ Idle
    /\ pc = "call_prompt"
    /\ arg \in PromptInputs
    /\ result = Ok(<<>>)

BuildSummaryPrompt ==
    /\ pc = "call_prompt"
    /\ arg.fn = "summarize_transcript"
    /\ result' = Ok(SummaryPrompt(arg.transcript))
    /\ pc' = "returned"
    /\ UNCHANGED arg
    /\ UNCHANGED_app

BuildAnswerPrompt ==
    /\ pc = "call_prompt"
    /\ arg.fn = "ask"
    /\ result' = AnswerPrompt(arg.summary, arg.question)
    /\ pc' = "returned"
    /\ UNCHANGED arg
    /\ UNCHANGED_app

NextPrompt == BuildSummaryPrompt \/ BuildAnswerPrompt

SpecPrompt == InitPrompt /\ [][NextPrompt]_vars

\* prompt[from+1 .. from+k] is exactly the first Min(Len(text), limit) characters of text
HoldsPrefix(prompt, from, text, limit) ==
    LET k == IF Len(text) < limit THEN Len(text) ELSE limit IN
    /\ Len(prompt) >= from + k
    /\ \A i \in 1..k : prompt[from + i] = text[i]

\* number of characters of the prompt that come from text
Kept(text, limit) == IF Len(text) < limit THEN Len(text) ELSE limit

\* C9: the summary prompt is the instruction followed by exactly the first
\* 10,000 characters of the transcript; the answer prompt is the instruction,
\* the label, exactly the first 2,500 characters of the summary, the label and
\* exactly the first 500 characters of the question; nothing beyond a limit
\* is in the prompt and building it raises nothing.
C9_PromptTruncation ==
    pc = "returned" =>
        /\ result.ok
        /\ arg.fn = "summarize_transcript" =>
            LET t == arg.transcript.s IN
            /\ Len(result.val) = 1 + Kept(t, 10000)
            /\ result.val[1] = SummaryInstruction[1]
            /\ HoldsPrefix(result.val, 1, t, 10000)
        /\ arg.fn = "ask" =>
            LET s == arg.summary.s
                q == arg.question.s
            IN
            /\ Len(result.val) = 4 + Kept(s, 2500) + Kept(q, 500)
            /\ result.val[1] = AnswerInstruction[1]
            /\ result.val[2] = "Summary: "
            /\ HoldsPrefix(result.val, 2, s, 2500)
            /\ result.val[3 + Kept(s, 2500)] = "\n"
            /\ result.val[4 + Kept(s, 2500)] = "Question: "
            /\ HoldsPrefix(result.val, 4 + Kept(s, 2500), q, 500)

\* a summary and a question both longer than their limits, the characters
\* just past the limits (marked "#") left out of the prompt
C9_Witness ==
    /\ pc = "returned"
    /\ arg.fn = "ask"
    /\ Len(arg.summary.s) = 2501 /\ arg.summary.s[2501] = "#"
    /\ Len(arg.question.s) = 502 /\ arg.question.s[501] = "#"
    /\ Len(result.val) = 3004
    /\ \A i \in 1..Len(result.val) : result.val[i] # "#"

-----------------------------------------------------------------------------
(* get_transcript_with_ytdlp: track selection, app.py:68-89 *)

MaxLangs == 2

Langs == {"en", "fr", "de"}

\* delivery URL of the i-th descriptor of a track; origin is "manual" or "auto"
TrackUrl(origin, lang, i) == PyStr(<<origin, lang, i>>)

\* the descriptor lists a provider can give for one language: no descriptor,
\* one descriptor with an empty url, two descriptors with their urls
TrackLists(origin, lang) ==
    { <<>>, <<PyStr(<<>>)>>, <<TrackUrl(origin, lang, "1"), TrackUrl(origin, lang, "2")>> }

\* a caption map is a dict in insertion order: a sequence of entries with
\* distinct languages; the empty sequence also stands for a missing key or None
CaptionMaps(origin) ==
    UNION { { m \in [1..k -> UNION { { [lang |-> l, tracks |-> t] :
                                         t \in TrackLists(origin, l) } : l \in Langs }] :
                \A i, j \in 1..k : i # j => m[i].lang # m[j].lang } :
            k \in 0..MaxLangs }

InfoSet == { [subtitles |-> m, automatic_captions |-> a] :
               m \in CaptionMaps("manual"), a \in CaptionMaps("auto") }

HasLang(m, l) == \E i \in 1..Len(m) : m[i].lang = l
Tracks(m, l) == m[CHOOSE i \in 1..Len(m) : m[i].lang = l].tracks

\* tracks[0]['url']: IndexError on an empty list
FirstUrl(tracks) == IF tracks = <<>> THEN Raise("IndexError") ELSE Ok(tracks[1])

\* the if/elif/else of app.py:69-86 with the automatic captions asked first
ChooseUrlAutoFirst(info) ==
    LET subs == info.subtitles
        auto == info.automatic_captions
    IN
    IF auto # <<>> /\ HasLang(auto, "en") THEN FirstUrl(Tracks(auto, "en"))
    ELSE IF subs # <<>> THEN
        IF HasLang(subs, "en") THEN FirstUrl(Tracks(subs, "en"))
        ELSE FirstUrl(subs[1].tracks)
    ELSE IF auto # <<>> THEN Ok(None)
    ELSE Raise("No captions available for this video")

\* the if/elif/else of app.py:69-86: the value given to subtitle_url
ChooseUrl(info) ==
    LET subs == info.subtitles
        auto == info.automatic_captions
    IN
    IF subs # <<>> THEN
        IF HasLang(subs, "en") THEN FirstUrl(Tracks(subs, "en"))
        ELSE IF Len(subs) > 0 THEN FirstUrl(subs[1].tracks)
        ELSE Ok(None)
    ELSE IF auto # <<>> THEN
        IF HasLang(auto, "en") THEN FirstUrl(Tracks(auto, "en"))
        ELSE Ok(None)
    ELSE Raise("No captions available for this video")

\* app.py:68-89: subtitle_url, or the exception raised before the download
SelectSubtitleUrl(info) ==
    LET r == ChooseUrl(info) IN
    IF r.ok /\ ~Truthy(r.val) THEN Raise("Could not find subtitle URL") ELSE r

-----------------------------------------------------------------------------
(* Specification SpecCaptions: the track selection applied to every pair of
   caption maps within the bounds *)

InitCaptions ==
    /\ Idle
    /\ pc = "call_select"
    /\ arg \in InfoSet
    /\ result = Ok(None)

CallSelectSubtitleUrl ==
    /\ pc = "call_select"
    /\ result' = SelectSubtitleUrl(arg)
    /\ pc' = "returned"
    /\ UNCHANGED arg
    /\ UNCHANGED_app

NextCaptions == CallSelectSubtitleUrl

SpecCaptions == InitCaptions /\ [][NextCaptions]_vars

-----------------------------------------------------------------------------
(* get_transcript_with_ytdlp: parsing and flattening, app.py:96-111 *)

MaxEvents == 2
MaxSegs == 1

Whitespace == {" ", "\n", "\t"}

\* a segment is its utf8 text, or Absent when it has no 'utf8' key
SegSet == { Absent, PyStr(<<>>), PyStr(<<"\n">>), PyStr(<<"a">>) }
SegLists == UNION { [1..k -> SegSet] : k \in 0..MaxSegs }
\* an event with or without a 'segs' key
EventSet == { [has_segs |-> FALSE, segs |-> <<>>] }
            \cup { [has_segs |-> TRUE, segs |-> sl] : sl \in SegLists }
EventLists == UNION { [1..k -> EventSet] : k \in 0..MaxEvents }

\* what urlopen + read + decode + json.loads give: an exception (network,
\* decoding, invalid JSON), a JSON value that is no object, or an object with
\* or without an 'events' key
PayloadSet ==
    { [kind |-> "error", has_events |-> FALSE, events |-> <<>>],
      [kind |-> "list", has_events |-> FALSE, events |-> <<>>],
      [kind |-> "dict", has_events |-> FALSE, events |-> <<>>] }
    \cup { [kind |-> "dict", has_events |-> TRUE, events |-> el] : el \in EventLists }

\* the inner loop, app.py:102-104
RECURSIVE SegTexts(_)
SegTexts(segs) ==
    IF segs = <<>> THEN <<>>
    ELSE (IF Head(segs).t = "str" THEN <<Head(segs).s>> ELSE <<>>) \o SegTexts(Tail(segs))

\* the outer loop, app.py:99-104: transcript_parts
RECURSIVE TranscriptParts(_)
TranscriptParts(events) ==
    IF events = <<>> THEN <<>>
    ELSE (IF Head(events).has_segs THEN SegTexts(Head(events).segs) ELSE <<>>)
         \o TranscriptParts(Tail(events))

\* ' '.join(parts)
RECURSIVE Join(_)
Join(parts) ==
    IF parts = <<>> THEN <<>>
    ELSE IF Len(parts) = 1 THEN parts[1]
    ELSE parts[1] \o <<" ">> \o Join(Tail(parts))

\* not text.strip()
IsBlank(text) == \A i \in 1..Len(text) : text[i] \in Whitespace

\* app.py:108 without the strip(): only the empty string is refused
EmptyCheckNoStrip(text) == text = <<>>
EmptyCheck(text) == IsBlank(text)

\* app.py:92-111: the transcript text, or the exception raised
ParseTranscript(payload) ==
    IF payload.kind = "error" THEN Raise("urlopen/json error")
    ELSE IF payload.kind # "dict" THEN Raise("AttributeError")
    ELSE LET text == Join(TranscriptParts(IF payload.has_events THEN payload.events ELSE <<>>)) IN
         IF EmptyCheck(text) THEN Raise("Transcript extracted but empty")
         ELSE Ok(PyStr(text))

-----------------------------------------------------------------------------
(* Module start-up, app.py:11-36 *)

\* Mistral(api_key=...) built whatever the key, as with the `if` of line 29 dropped
MakeClientWithoutKey(key, ctor_ok) == ctor_ok
\* mistral_client after lines 28-36: an object only if the key is set and
\* the constructor did not raise
MakeClient(key, ctor_ok) == key /\ ctor_ok

Init ==
    /\ env \in [MISTRAL_API_KEY : BOOLEAN, ctor_ok : BOOLEAN]
    /\ YT_DLP_AVAILABLE \in BOOLEAN
    /\ mistral_client = MakeClient(env.MISTRAL_API_KEY, env.ctor_ok)
    /\ pc = "idle"
    /\ request = NoRequest
    /\ frame = NoFrame
    /\ response = NoResponse
    /\ calls = <<>>
    /\ clientCount = 0
    /\ answered = 0
    /\ arg = None
    /\ result = Ok(None)

-----------------------------------------------------------------------------
(* Requests and responses *)

\* jsonify(body), status
Json(status, success, verification, error, detail) ==
    [kind |-> "json", status |-> status, success |-> success,
     verification |-> verification, error |-> error, detail |-> detail,
     text |-> "", prompt_count |-> Absent]

\* an exception that leaves the view function: no JSON body of the handler's
Uncaught(e) ==
    [kind |-> "uncaught", status |-> 500, success |-> "absent",
     verification |-> "absent", error |-> "", detail |-> e,
     text |-> "", prompt_count |-> Absent]

\* body kinds: not JSON by content type, JSON content type with a body that
\* does not parse, the JSON values null, [], ["question","prompt_count","summary"],
\* and a JSON object
BodyKinds == {"notjson", "malformed", "null", "array_empty", "array_keys", "object"}

ValidUrl == PyStr(<<"w","a","t","c","h","?","v","=","a","-","1">>)
VideoUrlValues == { Absent, None, PyStr(<<>>), PyInt(0), PyInt(123),
                    PyStr(<<"a","b","c">>), ValidUrl }

SummarizeRequests ==
    { [endpoint |-> "summarize", honest |-> FALSE, kind |-> k,
       video_url |-> Absent, question |-> Absent, prompt_count |-> Absent,
       summary |-> Absent] : k \in BodyKinds \ {"object"} }
    \cup
    { [endpoint |-> "summarize", honest |-> FALSE, kind |-> "object",
       video_url |-> u, question |-> Absent, prompt_count |-> Absent,
       summary |-> Absent] : u \in VideoUrlValues }

Finish(r) ==
    /\ pc' = "done"
    /\ response' = r

UNCHANGED_globals == UNCHANGED <<env, YT_DLP_AVAILABLE, mistral_client, clientCount,
                                 answered, arg, result>>

Call(op, input) == [op |-> op, input |-> input]
CallOps == [i \in 1..Len(calls) |-> calls[i].op]

-----------------------------------------------------------------------------
(* POST /summarize, app.py:141-190 *)

ReceiveSummarize ==
    /\ pc = "idle"
    /\ \E r \in SummarizeRequests : request' = r
    /\ pc' = "s_ytdlp"
    /\ frame' = NoFrame
    /\ response' = NoResponse
    /\ calls' = <<>>
    /\ UNCHANGED_globals

\* app.py:144-148
S_CheckYtDlp ==
    /\ pc = "s_ytdlp"
    /\ IF ~YT_DLP_AVAILABLE
       THEN Finish(Json(500, "false", "absent",
                        "Server Error: yt-dlp library not installed. Install with: pip install yt-dlp", ""))
       ELSE pc' = "s_client" /\ UNCHANGED response
    /\ UNCHANGED <<request, frame, calls>>
    /\ UNCHANGED_globals

\* app.py:150-154
S_CheckClient ==
    /\ pc = "s_client"
    /\ IF ~mistral_client
       THEN Finish(Json(500, "false", "absent",
                        "Mistral API Key or client initialization failed.", ""))
       ELSE pc' = "s_url" /\ UNCHANGED response
    /\ UNCHANGED <<request, frame, calls>>
    /\ UNCHANGED_globals

\* `if video_url is None` in place of `if not video_url`
NoUrlOnlyNone(v) == v.t = "none"
\* app.py:160: not video_url
NoUrl(v) == ~Truthy(v)

\* app.py:157-163: get_json() raises on a body that is not JSON, and .get
\* raises AttributeError on None or a list; the bare except answers both
S_GetUrl ==
    /\ pc = "s_url"
    /\ IF request.kind # "object"
       THEN /\ Finish(Json(400, "false", "absent", "Invalid JSON.", ""))
            /\ UNCHANGED frame
       ELSE LET video_url == IF request.video_url.t = "absent" THEN None
                             ELSE request.video_url
            IN
            /\ frame' = [frame EXCEPT !.video_url = video_url]
            /\ IF NoUrl(video_url)
               THEN Finish(Json(400, "false", "absent", "No URL provided.", ""))
               ELSE pc' = "s_video_id" /\ UNCHANGED response
    /\ UNCHANGED <<request, calls>>
    /\ UNCHANGED_globals

\* `if not video_id` of app.py:166 dropped
InvalidLinkNever(video_id) == FALSE
\* app.py:166: not video_id
InvalidLink(video_id) == ~Truthy(video_id)

\* app.py:165-167: the call is outside every try block of the handler
S_VideoId ==
    /\ pc = "s_video_id"
    /\ LET r == get_video_id(frame.video_url) IN
       IF ~r.ok
       THEN Finish(Uncaught(r.exc)) /\ UNCHANGED frame
       ELSE /\ frame' = [frame EXCEPT !.video_id = r.val]
            /\ IF InvalidLink(r.val)
               THEN Finish(Json(400, "false", "absent", "Invalid YouTube Link.", ""))
               ELSE pc' = "s_extract_info" /\ UNCHANGED response
    /\ UNCHANGED <<request, calls>>
    /\ UNCHANGED_globals

\* app.py:185-190 answering the exception get_transcript_with_ytdlp raised
\* (app.py:113-115 wraps every exception of its body)
TranscriptFailure(e) ==
    Json(500, "false", "absent", "Failed to get transcript: Failed to fetch transcript with yt-dlp", e)

\* app.py:173, 48-89: extract_info, which may raise, then the track selection
S_ExtractInfo ==
    /\ pc = "s_extract_info"
    /\ calls' = Append(calls, Call("extract_info", frame.video_id))
    /\ \E raised \in BOOLEAN :
         IF raised
         THEN /\ frame' = [frame EXCEPT !.exc = "DownloadError"]
              /\ Finish(TranscriptFailure("DownloadError"))
         ELSE \E info \in InfoSet :
                LET r == SelectSubtitleUrl(info) IN
                IF ~r.ok
                THEN /\ frame' = [frame EXCEPT !.exc = r.exc]
                     /\ Finish(TranscriptFailure(r.exc))
                ELSE /\ frame' = [frame EXCEPT !.subtitle_url = r.val]
                     /\ pc' = "s_download"
                     /\ UNCHANGED response
    /\ UNCHANGED request
    /\ UNCHANGED_globals

\* app.py:92-111: download, parse, flatten, refuse an empty transcript
S_Download ==
    /\ pc = "s_download"
    /\ calls' = Append(calls, Call("urlopen", frame.subtitle_url))
    /\ \E payload \in PayloadSet :
         LET r == ParseTranscript(payload) IN
         IF ~r.ok
         THEN /\ frame' = [frame EXCEPT !.payload = payload, !.exc = r.exc]
              /\ Finish(TranscriptFailure(r.exc))
         ELSE /\ frame' = [frame EXCEPT !.payload = payload,
                                        !.transcript_text = r.val]
              /\ pc' = "s_summarize"
              /\ UNCHANGED response
    /\ UNCHANGED request
    /\ UNCHANGED_globals

\* app.py:178-183 with summarize_transcript, app.py:117-135: the model is
\* called once; it answers, or the call (or reading choices[0]) raises
S_Summarize ==
    /\ pc = "s_summarize"
    /\ IF ~mistral_client
       THEN /\ Finish(Json(500, "false", "absent",
                           "Mistral client unavailable. Check API key or imports.", ""))
            /\ UNCHANGED calls
       ELSE /\ calls' = Append(calls, Call("chat.complete", SummaryPrompt(frame.transcript_text)))
            /\ \E raised \in BOOLEAN :
                 IF raised
                 THEN Finish(Json(500, "false", "absent", "Mistral API Error", "APIError"))
                 ELSE Finish([Json(200, "true", "absent", "", "") EXCEPT !.text = "summary"])
    /\ UNCHANGED <<request, frame>>
    /\ UNCHANGED_globals

-----------------------------------------------------------------------------
(* POST /ask, app.py:192-246 *)

MaxPrompts == 8
MaxCount == 9

RequiredKeys == <<"question", "prompt_count", "summary">>

QuestionValues == { Absent, None, PyInt(5), PyStr(<<"q">>) }
SummaryValues == { Absent, PyInt(5), PyStr(<<"s">>) }
CountValues == { Absent, None, PyStr(<<>>), PyStr(<<"x">>), PyStr(<<"7">>),
                 PyStr(<<"8">>), PyStr(<<"1", "0">>) }
               \cup { PyInt(n) : n \in -1..MaxCount }

AskRequests ==
    { [endpoint |-> "ask", honest |-> FALSE, kind |-> k,
       video_url |-> Absent, question |-> Absent, prompt_count |-> Absent,
       summary |-> Absent] : k \in BodyKinds \ {"object"} }
    \cup
    { [endpoint |-> "ask", honest |-> FALSE, kind |-> "object",
       video_url |-> Absent, question |-> q, prompt_count |-> c,
       summary |-> s] : q \in QuestionValues, c \in CountValues, s \in SummaryValues }

\* the request of the page's client: it sends back the prompt_count it holds
HonestAsk(count) ==
    [endpoint |-> "ask", honest |-> TRUE, kind |-> "object",
     video_url |-> Absent, question |-> PyStr(<<"q">>),
     prompt_count |-> PyInt(count), summary |-> PyStr(<<"s">>)]

ReceiveAsk ==
    /\ pc = "idle"
    /\ \E r \in AskRequests : request' = r
    /\ pc' = "a_json"
    /\ frame' = NoFrame
    /\ response' = NoResponse
    /\ calls' = <<>>
    /\ UNCHANGED_globals

ReceiveHonestAsk ==
    /\ pc = "idle"
    /\ request' = HonestAsk(clientCount)
    /\ pc' = "a_json"
    /\ frame' = NoFrame
    /\ response' = NoResponse
    /\ calls' = <<>>
    /\ UNCHANGED_globals

\* app.py:245-246
InternalError(e) == Json(500, "absent", "false", "Internal server error", e)

\* app.py:195-200: is_json looks at the content type; get_json raises
\* BadRequest on a body that does not parse, and returns None for null
A_GetJson ==
    /\ pc = "a_json"
    /\ CASE request.kind = "notjson" ->
              Finish(Json(400, "absent", "false", "JSON not available.", ""))
         [] request.kind = "malformed" -> Finish(InternalError("BadRequest"))
         [] request.kind = "null" ->
              Finish(Json(400, "absent", "false", "Request failed.", ""))
         [] OTHER -> pc' = "a_validate" /\ UNCHANGED response
    /\ UNCHANGED <<request, frame, calls>>
    /\ UNCHANGED_globals

\* keys in data, for a dict (its keys) and for a list (its elements)
Field(req, key) ==
    CASE key = "question" -> req.question
      [] key = "prompt_count" -> req.prompt_count
      [] key = "summary" -> req.summary
HasKey(req, key) ==
    CASE req.kind = "object" -> Field(req, key).t # "absent"
      [] req.kind = "array_keys" -> TRUE
      [] OTHER -> FALSE

\* app.py:204-207: the first required key that is missing
MissingKeys(req) == { i \in 1..Len(RequiredKeys) : ~HasKey(req, RequiredKeys[i]) }

A_Validate ==
    /\ pc = "a_validate"
    /\ IF MissingKeys(request) # {}
       THEN LET i == CHOOSE j \in MissingKeys(request) :
                        \A k \in MissingKeys(request) : j <= k
            IN Finish(Json(400, "absent", "absent", "is required.", RequiredKeys[i]))
       ELSE pc' = "a_convert" /\ UNCHANGED response
    /\ UNCHANGED <<request, frame, calls>>
    /\ UNCHANGED_globals

DigitValue(c) ==
    CASE c = "0" -> 0 [] c = "1" -> 1 [] c = "2" -> 2 [] c = "3" -> 3 [] c = "4" -> 4
      [] c = "5" -> 5 [] c = "6" -> 6 [] c = "7" -> 7 [] c = "8" -> 8 [] c = "9" -> 9

RECURSIVE DigitsValue(_)
DigitsValue(s) ==
    IF s = <<>> THEN 0 ELSE 10 * DigitsValue(SubSeq(s, 1, Len(s) - 1)) + DigitValue(s[Len(s)])

\* int(x): an int is itself, a str of decimal digits is parsed, any other
\* str raises ValueError, None raises TypeError
ToInt(v) ==
    CASE v.t = "int" -> Ok(PyInt(v.n))
      [] v.t = "str" -> IF v.s # <<>> /\ \A i \in 1..Len(v.s) : v.s[i] \in Digits
                        THEN Ok(PyInt(DigitsValue(v.s)))
                        ELSE Raise("ValueError")
      [] OTHER -> Raise("TypeError")

\* app.py:209-213: data["question"] on a list raises TypeError
A_Convert ==
    /\ pc = "a_convert"
    /\ IF request.kind # "object"
       THEN Finish(InternalError("TypeError")) /\ UNCHANGED frame
       ELSE LET r == ToInt(request.prompt_count) IN
            IF ~r.ok
            THEN Finish(InternalError(r.exc)) /\ UNCHANGED frame
            ELSE /\ frame' = [frame EXCEPT !.question = request.question,
                                           !.summary = request.summary,
                                           !.prompt_count = r.val.n]
                 /\ pc' = "a_gate"
                 /\ UNCHANGED response
    /\ UNCHANGED <<request, calls>>
    /\ UNCHANGED_globals

\* `>` in place of `>=`
GateRejectsAbove(prompt_count) == prompt_count > MaxPrompts
\* app.py:216
GateRejects(prompt_count) == prompt_count >= MaxPrompts

\* app.py:216-220
A_Gate ==
    /\ pc = "a_gate"
    /\ IF GateRejects(frame.prompt_count)
       THEN Finish(Json(400, "false", "absent", "Max prompt limit reached", ""))
            /\ UNCHANGED frame
       ELSE /\ frame' = [frame EXCEPT !.admitted = TRUE]
            /\ pc' = "a_client"
            /\ UNCHANGED response
    /\ UNCHANGED <<request, calls>>
    /\ UNCHANGED_globals

\* app.py:222-226
A_CheckClient ==
    /\ pc = "a_client"
    /\ IF ~mistral_client
       THEN Finish(Json(500, "false", "absent",
                        "Mistral API Key or client initialization failed.", ""))
       ELSE pc' = "a_model" /\ UNCHANGED response
    /\ UNCHANGED <<request, frame, calls>>
    /\ UNCHANGED_globals

\* the counter echoed unchanged
NextCountSame(prompt_count) == prompt_count
\* app.py:242
NextCount(prompt_count) == prompt_count + 1

\* app.py:228-243: the prompt (slicing raises on a non-str), then one model
\* call, which answers or raises
A_Model ==
    /\ pc = "a_model"
    /\ LET p == AnswerPrompt(frame.summary, frame.question) IN
       IF ~p.ok
       THEN Finish(InternalError(p.exc)) /\ UNCHANGED calls
       ELSE /\ calls' = Append(calls, Call("chat.complete", p.val))
            /\ \E raised \in BOOLEAN :
                 IF raised
                 THEN Finish(InternalError("APIError"))
                 ELSE Finish([Json(200, "true", "absent", "", "") EXCEPT
                                 !.text = "answer",
                                 !.prompt_count = PyInt(NextCount(frame.prompt_count))])
    /\ UNCHANGED <<request, frame>>
    /\ UNCHANGED_globals

-----------------------------------------------------------------------------
(* The response reaches the client *)

\* the page's client stores the prompt_count of a successful answer
Deliver ==
    /\ pc = "done"
    /\ pc' = "idle"
    /\ IF request.honest /\ response.success = "true"
       THEN /\ clientCount' = response.prompt_count.n
            /\ answered' = answered + 1
       ELSE UNCHANGED <<clientCount, answered>>
    /\ request' = NoRequest
    /\ frame' = NoFrame
    /\ response' = NoResponse
    /\ calls' = <<>>
    /\ UNCHANGED <<env, YT_DLP_AVAILABLE, mistral_client, arg, result>>

Next ==
    \/ ReceiveSummarize
    \/ S_CheckYtDlp
    \/ S_CheckClient
    \/ S_GetUrl
    \/ S_VideoId
    \/ S_ExtractInfo
    \/ S_Download
    \/ S_Summarize
    \/ ReceiveAsk
    \/ A_GetJson
    \/ A_Validate
    \/ A_Convert
    \/ A_Gate
    \/ A_CheckClient
    \/ A_Model
    \/ Deliver

Spec == Init /\ [][Next]_vars

\* one client in a conversation: every /ask carries the count it holds
NextConversation ==
    \/ ReceiveHonestAsk
    \/ A_GetJson
    \/ A_Validate
    \/ A_Convert
    \/ A_Gate
    \/ A_CheckClient
    \/ A_Model
    \/ Deliver

SpecConversation == Init /\ [][NextConversation]_vars

-----------------------------------------------------------------------------
(* Properties of the handlers *)

ModelCalls == Cardinality({ i \in 1..Len(calls) : calls[i].op = "chat.complete" })

\* the /ask request is a JSON object that carries all three required fields
\* and an integer prompt_count
FullAsk ==
    /\ request.endpoint = "ask"
    /\ request.kind = "object"
    /\ request.question.t # "absent"
    /\ request.summary.t # "absent"
    /\ request.prompt_count.t = "int"

\* C1: a /ask request carrying all three fields is admitted when its
\* prompt_count is 0..7 and, when it is 8 or more, is answered with HTTP 400
\* and the max-limit error; the rejection carries no incremented counter (no
\* prompt_count at all) and no model call is made for it.
C1_GateAdmitsBelowEight ==
    (FullAsk /\ pc = "done") =>
        /\ request.prompt_count.n \in 0..7 =>
             /\ frame.admitted
             /\ response.error # "Max prompt limit reached"
        /\ request.prompt_count.n >= 8 =>
             /\ ~frame.admitted
             /\ response.status = 400
             /\ response.success = "false"
             /\ response.error = "Max prompt limit reached"
             /\ response.prompt_count = Absent
             /\ calls = <<>>

\* a complete request with prompt_count exactly 8, rejected
C1_Witness ==
    /\ FullAsk /\ pc = "done"
    /\ request.prompt_count = PyInt(8)
    /\ response.status = 400
    /\ response.error = "Max prompt limit reached"

\* C2: in a conversation whose client starts at 0 and always sends the
\* prompt_count of the last successful response, a successful response
\* carries the supplied prompt_count plus 1, the number of answers equals the
\* count the client holds and never exceeds 8, and once 8 answers were given
\* every /ask is rejected with the max-limit error.
C2_ConversationBounded ==
    /\ answered = clientCount
    /\ answered <= 8
    /\ (pc = "done" /\ response.success = "true") =>
         /\ response.status = 200
         /\ response.prompt_count = PyInt(request.prompt_count.n + 1)
    /\ (pc = "done" /\ answered = 8) =>
         /\ response.status = 400
         /\ response.error = "Max prompt limit reached"
         /\ ModelCalls = 0

\* the ninth question of the conversation, rejected
C2_Witness ==
    /\ answered = 8
    /\ pc = "done"
    /\ request.honest
    /\ request.prompt_count = PyInt(8)
    /\ response.error = "Max prompt limit reached"

\* the track the spec's precedence names: manual English, else the first
\* listed manual language, else automatic English, else none
Precedence(info) ==
    IF \E i \in 1..Len(info.subtitles) : info.subtitles[i].lang = "en"
        THEN <<"manual", "en">>
    ELSE IF Len(info.subtitles) > 0 THEN <<"manual", info.subtitles[1].lang>>
    ELSE IF \E i \in 1..Len(info.automatic_captions) :
                info.automatic_captions[i].lang = "en"
        THEN <<"auto", "en">>
    ELSE <<>>

\* the descriptor list the provider gave for that track
DescriptorsOf(info, track) ==
    LET m == IF track[1] = "manual" THEN info.subtitles ELSE info.automatic_captions
    IN m[CHOOSE i \in 1..Len(m) : m[i].lang = track[2]].tracks

\* C3: whatever manual and automatic maps the provider returns, the URL
\* selected for download is the first descriptor's of the track chosen by
\* strict precedence (manual English, else first listed manual language, else
\* automatic English) and of no other track; when the precedence names no
\* track the selection fails with "No captions available" or "Could not find
\* subtitle URL"; when the chosen track has no usable descriptor it fails
\* too, and no lower-ranked track is tried.
C3_TrackPrecedence ==
    pc = "returned" =>
        LET track == Precedence(arg) IN
        IF track = <<>>
        THEN /\ ~result.ok
             /\ result.exc \in {"No captions available for this video",
                                "Could not find subtitle URL"}
        ELSE LET d == DescriptorsOf(arg, track) IN
             IF d # <<>> /\ d[1].s # <<>>
             THEN result = Ok(PyStr(<<track[1], track[2], "1">>))
             ELSE /\ ~result.ok
                  /\ result.exc \in {"IndexError", "Could not find subtitle URL"}

\* manual English and automatic English both offered, manual English listed
\* second among the manual languages: manual English is the one selected
C3_Witness ==
    /\ pc = "returned"
    /\ Len(arg.subtitles) = 2
    /\ arg.subtitles[1].lang = "fr"
    /\ arg.subtitles[2].lang = "en"
    /\ \E i \in 1..Len(arg.automatic_captions) :
         /\ arg.automatic_captions[i].lang = "en"
         /\ arg.automatic_captions[i].tracks # <<>>
         /\ arg.automatic_captions[i].tracks[1].s # <<>>
    /\ result = Ok(PyStr(<<"manual", "en", "1">>))

\* every text fragment of the downloaded caption document is whitespace only
\* (or there is none): the flattened text is empty or whitespace-only
FlattensToBlank(payload) ==
    /\ payload.kind = "dict"
    /\ \A i \in 1..Len(payload.events) :
         payload.events[i].has_segs =>
           \A j \in 1..Len(payload.events[i].segs) :
             LET seg == payload.events[i].segs[j] IN
             seg.t = "str" => \A k \in 1..Len(seg.s) : seg.s[k] \in {" ", "\n", "\t"}

\* C4: when the flattened caption text is empty or whitespace-only, the
\* fetch fails with the empty-transcript error, /summarize answers with a
\* failure and the model is not called; a transcript that is returned, sent
\* to the model or answered with success always holds a non-whitespace
\* character.
C4_EmptyTranscriptRefused ==
    /\ (request.endpoint = "summarize" /\ FlattensToBlank(frame.payload)) =>
         /\ pc = "done"
         /\ response.status = 500
         /\ response.success = "false"
         /\ response.detail = "Transcript extracted but empty"
         /\ ModelCalls = 0
    /\ (request.endpoint = "summarize" /\ frame.transcript_text # None) =>
         \E k \in 1..Len(frame.transcript_text.s) :
            frame.transcript_text.s[k] \notin {" ", "\n", "\t"}
    /\ \A i \in 1..Len(calls) :
         (request.endpoint = "summarize" /\ calls[i].op = "chat.complete") =>
            \E k \in 2..Len(calls[i].input) : calls[i].input[k] \notin {" ", "\n", "\t"}
    /\ (request.endpoint = "summarize" /\ response.success = "true") =>
         /\ frame.transcript_text # None
         /\ ~FlattensToBlank(frame.payload)

\* two events whose only fragments are line breaks: "\n \n" after the join
C4_Witness ==
    /\ request.endpoint = "summarize"
    /\ pc = "done"
    /\ Len(frame.payload.events) = 2
    /\ \A i \in 1..2 : /\ frame.payload.events[i].has_segs
                       /\ frame.payload.events[i].segs = <<PyStr(<<"\n">>)>>
    /\ response.detail = "Transcript extracted but empty"

\* the body is a JSON object whose video_url is missing, null or ""
UrlMissingOrEmpty ==
    /\ request.endpoint = "summarize"
    /\ request.kind = "object"
    /\ request.video_url \in {Absent, None, PyStr(<<>>)}

NoUrlAnswer ==
    /\ response.kind = "json"
    /\ response.status = 400
    /\ response.success = "false"
    /\ response.error = "No URL provided."

\* C5 as stated: every /summarize request whose video_url is missing or
\* empty is answered with HTTP 400 and {success: false, error: 'No URL
\* provided.'}, and no caption fetch or model call is made for it.
C5_Original ==
    (UrlMissingOrEmpty /\ pc = "done") => (NoUrlAnswer /\ calls = <<>>)

\* C5 amended: such a request is answered with 400 'No URL provided.' when
\* yt-dlp was imported and the Mistral client was built; when either is
\* missing it is answered with HTTP 500 and that configuration error, before
\* the body is read.  In every case the answer is a failure and no caption
\* fetch or model call is made.
C5_NoUrlWhenConfigured ==
    (UrlMissingOrEmpty /\ pc = "done") =>
        /\ calls = <<>>
        /\ response.kind = "json"
        /\ response.success = "false"
        /\ (YT_DLP_AVAILABLE /\ mistral_client) => NoUrlAnswer
        /\ ~YT_DLP_AVAILABLE =>
             /\ response.status = 500
             /\ response.error = "Server Error: yt-dlp library not installed. Install with: pip install yt-dlp"
        /\ (YT_DLP_AVAILABLE /\ ~mistral_client) =>
             /\ response.status = 500
             /\ response.error = "Mistral API Key or client initialization failed."

\* {"video_url": ""} on a configured server
C5_Witness ==
    /\ UrlMissingOrEmpty /\ pc = "done"
    /\ request.video_url = PyStr(<<>>)
    /\ YT_DLP_AVAILABLE /\ mistral_client
    /\ NoUrlAnswer

\* C6 as stated: no exception raised at any stage of /summarize or /ask
\* leaves the handler; every one is turned into a JSON error response.
C6_NoExceptionEscapes ==
    pc = "done" => response.kind = "json"

\* the API key is absent or the client could not be built
ClientMissing == ~env.MISTRAL_API_KEY \/ ~env.ctor_ok

\* C7: with the API key absent (or the client construction failed) requests
\* are still served, and every /summarize and /ask request is answered with
\* a JSON failure: never success, never HTTP 200, and no model call (nor any
\* other external call) is made.
C7_DegradedToFailure ==
    ClientMissing =>
        /\ ~mistral_client
        /\ calls = <<>>
        /\ response.success # "true"
        /\ pc = "done" =>
             /\ response.kind = "json"
             /\ response.status \in {400, 500}
             /\ response.error # ""

\* a complete, admissible question on a server started without the key
C7_Witness ==
    /\ ~env.MISTRAL_API_KEY
    /\ pc = "done"
    /\ FullAsk
    /\ request.prompt_count = PyInt(0)
    /\ request.question.t = "str" /\ request.summary.t = "str"
    /\ response.status = 500
    /\ response.error = "Mistral API Key or client initialization failed."

IsPrefix(a, b) == Len(a) <= Len(b) /\ SubSeq(b, 1, Len(a)) = a

\* C10: the external calls of a request are a prefix of its pipeline, each
\* made at most once: extract_info, urlopen, chat.complete for /summarize and
\* chat.complete alone for /ask.  The model is called only after a video id
\* was extracted and a non-empty transcript fetched (/summarize), or after
\* all three fields were found and prompt_count < 8 (/ask).  A request
\* answered for a missing field, an invalid URL or a reached turn limit made
\* no external call; a request that failed at a stage made no later call and
\* did not repeat the failed one.
C10_SinglePassPipeline ==
    /\ request.endpoint = "summarize" =>
         /\ IsPrefix(CallOps, <<"extract_info", "urlopen", "chat.complete">>)
         /\ ModelCalls = 1 =>
              /\ frame.video_id.t = "str" /\ frame.video_id.s # <<>>
              /\ calls[1].input = frame.video_id
              /\ frame.transcript_text.t = "str" /\ frame.transcript_text.s # <<>>
    /\ request.endpoint = "ask" =>
         /\ IsPrefix(CallOps, <<"chat.complete">>)
         /\ ModelCalls = 1 =>
              /\ request.kind = "object"
              /\ \A i \in 1..3 : Field(request, RequiredKeys[i]).t # "absent"
              /\ frame.admitted
              /\ frame.prompt_count < 8
    /\ request.endpoint = "none" => calls = <<>>
    /\ (pc = "done" /\ response.error \in {"is required.", "No URL provided.",
            "Invalid JSON.", "Invalid YouTube Link.", "Max prompt limit reached",
            "JSON not available.", "Request failed."}) => calls = <<>>
    /\ (pc = "done" /\ response.error =
            "Failed to get transcript: Failed to fetch transcript with yt-dlp") =>
         /\ ModelCalls = 0
         /\ frame.exc \in {"DownloadError", "IndexError", "Could not find subtitle URL",
                           "No captions available for this video"} =>
              CallOps = <<"extract_info">>
         /\ frame.exc \in {"urlopen/json error", "AttributeError",
                           "Transcript extracted but empty"} =>
              CallOps = <<"extract_info", "urlopen">>
    /\ (pc = "done" /\ response.detail = "APIError") => ModelCalls = 1

\* a /summarize request that went through every stage and whose model call
\* failed: three calls, none repeated
C10_Witness ==
    /\ request.endpoint = "summarize"
    /\ pc = "done"
    /\ response.error = "Mistral API Error"
    /\ CallOps = <<"extract_info", "urlopen", "chat.complete">>

=============================================================================
